---- MODULE Spec2Model ----
(***************************************************************************)
(* A model of the PDF service: the split engine (services/pdf_splitter.py), *)
(* the merge engine (services/pdf_merger.py) with its route (app.py), the   *)
(* selection parsers (app.py), the compressor (services/pdf_compressor.py)  *)
(* with its route and its calls to Ghostscript, and the text and Word       *)
(* conversions (services/pdf_converter.py), the convert, info and split     *)
(* routes (app.py).                                                         *)
(*                                                                          *)
(* A document is the sequence of its pages.  A page of the split source is  *)
(* its 1-indexed page number; a page of a merge input is <<input, page>>.   *)
(* File names and selection texts are sequences of one-character strings.   *)
(***************************************************************************)
EXTENDS Integers, Sequences, FiniteSets, TLC

VARIABLES
    doc,      \* the source document of a call: [exists, page_count, toc], with
              \* the page texts or the file size where the call reads them
    outdir,   \* the output directory: file name -> pages of the saved document
    written,  \* the saves of the last call, in order: <<file name, pages>>
    ret,      \* the last call and its outcome
    calls,    \* the number of calls made on this output directory
    uploads,  \* the upload folder of the merge route: the saved uploads
    outfile,  \* the output path of a merge, compression or conversion: <<>> when
              \* no file, <<content>> when a file
    text,     \* the selection text handed to the parser
    parsed,   \* the parser's outcome
    handle,   \* the source document of the last call: "none" (never opened),
              \* "open" or "closed"
    req,      \* the request under way that calls an external engine, and where it is
    gs,       \* the calls made to the external engines, in order
    returned  \* what the last call that returns a value returned

vars == <<doc, outdir, written, ret, calls, uploads, outfile, text, parsed,
          handle, req, gs, returned>>

----------------------------------------------------------------------------
(* Bounds *)

MaxPages == 3
MaxSel == 3
MaxRanges == 2
MaxToc == 2
MaxCalls == 2
MaxChunkPages == 10
MaxChunk == 4
MaxInputs == 3
MaxMergePages == 3
MaxUploadPages == 1
MaxText == 5
MaxDigits == 2
MaxTokens == 2
MaxNum == 3
MaxSelText == 5
MaxTextPages == 3
MaxTripInputs == 2
MaxTripPages == 1
MaxTripSel == 2
MaxFileSize == 12000
MaxEighths == 80
MaxRoutePages == 2

----------------------------------------------------------------------------
(* Helpers: Python built-ins as used by the code *)

Min(a, b) == IF a < b THEN a ELSE b
Max(a, b) == IF a > b THEN a ELSE b

DigitChar == <<"0", "1", "2", "3", "4", "5", "6", "7", "8", "9">>

\* str(n) for n >= 0: the decimal digits, most significant first
RECURSIVE Digits(_)
Digits(n) == IF n < 10 THEN <<DigitChar[n + 1]>>
             ELSE Digits(n \div 10) \o <<DigitChar[(n % 10) + 1]>>

\* left-pad with "0" up to width w
RECURSIVE ZFill(_, _)
ZFill(s, w) == IF Len(s) >= w THEN s ELSE ZFill(<<"0">> \o s, w)

\* the format spec {n:03d}
Pad3(n) == ZFill(Digits(n), 3)

NoError == [exc |-> "none", msg |-> <<>>]

\* the state a split call leaves behind once fitz.open(input_path) has returned;
\* saved are its writes, in order.  pdf_document.close() is the statement before
\* the return, and no exit by an exception passes through it
Outcome(ok, err, files, saved) ==
    [ok |-> ok, err |-> err, files |-> files, saved |-> saved,
     handle |-> IF ok THEN "closed" ELSE "open"]

\* the state a split call leaves behind when it raises before it opens the source
Unopened(err) ==
    [ok |-> FALSE, err |-> err, files |-> <<>>, saved |-> <<>>, handle |-> "none"]

\* new_pdf.save(path) for each save in order: a later save of a path replaces
\* the earlier file
RECURSIVE SaveAll(_, _)
SaveAll(dir, saved) ==
    IF saved = <<>> THEN dir
    ELSE LET path == saved[1][1]
             pages == saved[1][2]
             d2 == [p \in (DOMAIN dir) \cup {path} |->
                        IF p = path THEN pages ELSE dir[p]]
         IN SaveAll(d2, Tail(saved))

\* fitz Document.insert_pdf(docsrc, from_page, to_page) into an empty document:
\* 0-indexed, both ends inclusive; from_page below 0 is the first page, to_page
\* below 0 or beyond the end is the last page, and from_page > to_page copies in
\* reverse order.  The result is the copied pages, 1-indexed.
insert_pdf(page_count, from_page, to_page) ==
    IF page_count = 0 THEN <<>>
    ELSE LET fp == Min(Max(from_page, 0), page_count - 1)
             tp == Min(IF to_page < 0 THEN page_count - 1 ELSE to_page,
                       page_count - 1)
         IN IF fp <= tp
            THEN [k \in 1..(tp - fp + 1) |-> fp + k]
            ELSE [k \in 1..(fp - tp + 1) |-> fp + 2 - k]

----------------------------------------------------------------------------
(* PDFSplitter.split_by_pages *)

\* a variant that pads to two digits only
page_filename_2d(page_num) ==
    <<"p", "a", "g", "e", "_">> \o ZFill(Digits(page_num), 2) \o <<".", "p", "d", "f">>

page_filename(page_num) ==
    <<"p", "a", "g", "e", "_">> \o Pad3(page_num) \o <<".", "p", "d", "f">>

\* the validation loop: the first page number outside [1, max_pages], or 0 when
\* there is none
RECURSIVE first_invalid_page(_, _, _)
first_invalid_page(page_numbers, max_pages, i) ==
    IF i > Len(page_numbers) THEN 0
    ELSE IF page_numbers[i] < 1 \/ page_numbers[i] > max_pages THEN i
    ELSE first_invalid_page(page_numbers, max_pages, i + 1)

\* a variant that hands the 1-indexed page number to insert_pdf as it is
RECURSIVE extract_pages_unshifted(_, _, _, _, _)
extract_pages_unshifted(d, page_numbers, i, files, saved) ==
    IF i > Len(page_numbers) THEN Outcome(TRUE, NoError, files, saved)
    ELSE LET page_num == page_numbers[i]
             new_pdf == insert_pdf(d.page_count, page_num, page_num)
             output_path == page_filename(page_num)
         IN extract_pages_unshifted(d, page_numbers, i + 1,
                                    Append(files, output_path),
                                    Append(saved, <<output_path, new_pdf>>))

\* the extraction loop from entry i on
RECURSIVE extract_pages(_, _, _, _, _)
extract_pages(d, page_numbers, i, files, saved) ==
    IF i > Len(page_numbers) THEN Outcome(TRUE, NoError, files, saved)
    ELSE LET page_num == page_numbers[i]
             new_pdf == insert_pdf(d.page_count, page_num - 1, page_num - 1)
             output_path == page_filename(page_num)
         IN extract_pages(d, page_numbers, i + 1,
                          Append(files, output_path),
                          Append(saved, <<output_path, new_pdf>>))

\* a variant that validates each page number only when it comes to extract it
RECURSIVE split_by_pages_interleaved(_, _, _, _, _)
split_by_pages_interleaved(d, page_numbers, i, files, saved) ==
    IF i > Len(page_numbers) THEN Outcome(TRUE, NoError, files, saved)
    ELSE LET page_num == page_numbers[i]
             output_path == page_filename(page_num)
         IN IF page_num < 1 \/ page_num > d.page_count
            THEN Outcome(FALSE,
                         [exc |-> "ValueError",
                          msg |-> <<"Numero de page invalide", page_num, d.page_count>>],
                         <<>>, saved)
            ELSE split_by_pages_interleaved(d, page_numbers, i + 1,
                     Append(files, output_path),
                     Append(saved, <<output_path,
                            insert_pdf(d.page_count, page_num - 1, page_num - 1)>>))

split_by_pages_lazy(d, page_numbers) ==
    split_by_pages_interleaved(d, page_numbers, 1, <<>>, <<>>)

split_by_pages(d, page_numbers) ==
    LET bad == first_invalid_page(page_numbers, d.page_count, 1)
    IN IF bad # 0
       THEN Outcome(FALSE,
                    [exc |-> "ValueError",
                     msg |-> <<"Numero de page invalide", page_numbers[bad], d.page_count>>],
                    <<>>, <<>>)
       ELSE extract_pages(d, page_numbers, 1, <<>>, <<>>)

----------------------------------------------------------------------------
(* PDFSplitter.split_by_range *)

range_filename(start, end) ==
    <<"p", "a", "g", "e", "s", "_">> \o Pad3(start) \o <<"-">> \o Pad3(end)
        \o <<".", "p", "d", "f">>

\* a variant whose to_page is one short: pages [start, end) instead of [start, end]
RECURSIVE range_loop_short(_, _, _, _, _)
range_loop_short(d, ranges, i, files, saved) ==
    IF i > Len(ranges) THEN Outcome(TRUE, NoError, files, saved)
    ELSE LET start == ranges[i][1]
             end == ranges[i][2]
             max_pages == d.page_count
             output_path == range_filename(start, end)
         IN IF start < 1 \/ end > max_pages \/ start > end
            THEN Outcome(FALSE,
                         [exc |-> "ValueError",
                          msg |-> <<"Plage invalide", start, end, max_pages>>],
                         <<>>, saved)
            ELSE range_loop_short(d, ranges, i + 1,
                            Append(files, output_path),
                            Append(saved, <<output_path,
                                            insert_pdf(max_pages, start - 1, end - 2)>>))

\* the loop of split_by_range from range i on: the check and the extraction of
\* a range are one iteration
RECURSIVE range_loop(_, _, _, _, _)
range_loop(d, ranges, i, files, saved) ==
    IF i > Len(ranges) THEN Outcome(TRUE, NoError, files, saved)
    ELSE LET start == ranges[i][1]
             end == ranges[i][2]
             max_pages == d.page_count
             output_path == range_filename(start, end)
         IN IF start < 1 \/ end > max_pages \/ start > end
            THEN Outcome(FALSE,
                         [exc |-> "ValueError",
                          msg |-> <<"Plage invalide", start, end, max_pages>>],
                         <<>>, saved)
            ELSE range_loop(d, ranges, i + 1,
                            Append(files, output_path),
                            Append(saved, <<output_path,
                                            insert_pdf(max_pages, start - 1, end - 1)>>))

split_by_range(d, ranges) == range_loop(d, ranges, 1, <<>>, <<>>)

----------------------------------------------------------------------------
(* PDFSplitter.split_every_n_pages *)

part_filename(i, start_page, end_page) ==
    <<"p", "a", "r", "t", "_">> \o Pad3(i + 1)
        \o <<"_", "p", "a", "g", "e", "s", "_">> \o Pad3(start_page + 1)
        \o <<"-">> \o Pad3(end_page + 1) \o <<".", "p", "d", "f">>

\* a variant that rounds down
num_files_floor(total_pages, n_pages) == total_pages \div n_pages

\* the number of files: (total_pages + n_pages - 1) // n_pages
num_files(total_pages, n_pages) == (total_pages + n_pages - 1) \div n_pages

\* the loop over range(num_files) from i on
RECURSIVE chunk_loop(_, _, _, _, _)
chunk_loop(d, n_pages, i, files, saved) ==
    IF i >= num_files(d.page_count, n_pages)
    THEN Outcome(TRUE, NoError, files, saved)
    ELSE LET total_pages == d.page_count
             start_page == i * n_pages
             end_page == Min((i + 1) * n_pages - 1, total_pages - 1)
             output_path == part_filename(i, start_page, end_page)
         IN chunk_loop(d, n_pages, i + 1,
                       Append(files, output_path),
                       Append(saved, <<output_path,
                                       insert_pdf(total_pages, start_page, end_page)>>))

split_every_n_pages(d, n_pages) ==
    IF n_pages < 1
    THEN Unopened([exc |-> "ValueError",
                   msg |-> <<"Le nombre de pages par fichier doit etre superieur a 0">>])
    ELSE chunk_loop(d, n_pages, 0, <<>>, <<>>)

----------------------------------------------------------------------------
(* PDFSplitter.split_by_bookmarks *)

TitleLimit == 50

IsAlnum(c) == c \in {"a", "b", "0", "1"}

\* str.rstrip(): drop the trailing blanks
RECURSIVE rstrip(_)
rstrip(s) == IF s # <<>> /\ s[Len(s)] = " " THEN rstrip(SubSeq(s, 1, Len(s) - 1))
             ELSE s

\* the title made fit for a file name
clean_title(title) ==
    LET kept == rstrip(SelectSeq(title, LAMBDA c : IsAlnum(c) \/ c \in {" ", "-", "_"}))
        under == [k \in 1..Len(kept) |-> IF kept[k] = " " THEN "_" ELSE kept[k]]
    IN SubSeq(under, 1, Min(Len(under), TitleLimit))

section_filename(i, title) ==
    <<"s", "e", "c", "t", "i", "o", "n", "_">> \o Pad3(i + 1) \o <<"_">>
        \o clean_title(title) \o <<".", "p", "d", "f">>

\* the 0-indexed last page of the section of entry i (0-indexed)
section_end_page(d, i) ==
    IF i + 1 < Len(d.toc) THEN d.toc[i + 2].page - 1 ELSE d.page_count - 1

\* the loop over enumerate(toc) from entry i (0-indexed) on
RECURSIVE bookmark_loop(_, _, _, _)
bookmark_loop(d, i, files, saved) ==
    IF i >= Len(d.toc) THEN Outcome(TRUE, NoError, files, saved)
    ELSE LET page_num == d.toc[i + 1].page
             end_page == section_end_page(d, i)
             output_path == section_filename(i, d.toc[i + 1].title)
         IN bookmark_loop(d, i + 1,
                          Append(files, output_path),
                          Append(saved, <<output_path,
                                          insert_pdf(d.page_count, page_num - 1, end_page)>>))

split_by_bookmarks(d) ==
    IF d.toc = <<>>
    THEN Outcome(FALSE,
                 [exc |-> "ValueError", msg |-> <<"Ce PDF ne contient pas de signets">>],
                 <<>>, <<>>)
    ELSE bookmark_loop(d, 0, <<>>, <<>>)

----------------------------------------------------------------------------
(* PDFMerger.merge_pdfs *)

\* what a merge leaves behind: out is <<>> when the output path holds no file
\* and <<pages>> when the merged document was written to it
MergeOutcome(ok, err, out) == [ok |-> ok, err |-> err, out |-> out]

\* a variant that leaves an encrypted input out and goes on with the next one
RECURSIVE merge_loop_skip(_, _, _)
merge_loop_skip(input_files, i, merger) ==
    IF i > Len(input_files) THEN MergeOutcome(TRUE, NoError, <<merger>>)
    ELSE IF ~input_files[i].exists
         THEN MergeOutcome(FALSE,
                  [exc |-> "FileNotFoundError", msg |-> <<"Fichier non trouve", i>>], <<>>)
    ELSE IF input_files[i].is_encrypted
         THEN merge_loop_skip(input_files, i + 1, merger)
    ELSE merge_loop_skip(input_files, i + 1, merger \o input_files[i].pages)

\* a variant that adds each input's pages in front of those already added
RECURSIVE merge_loop_front(_, _, _)
merge_loop_front(input_files, i, merger) ==
    IF i > Len(input_files) THEN MergeOutcome(TRUE, NoError, <<merger>>)
    ELSE IF ~input_files[i].exists
         THEN MergeOutcome(FALSE,
                  [exc |-> "FileNotFoundError", msg |-> <<"Fichier non trouve", i>>], <<>>)
    ELSE IF input_files[i].is_encrypted
         THEN MergeOutcome(FALSE,
                  [exc |-> "ValueError", msg |-> <<"PDF crypte non supporte", i>>], <<>>)
    ELSE merge_loop_front(input_files, i + 1, input_files[i].pages \o merger)

\* the loop over input_files from file i on, merger being the pages added so
\* far; the output file is opened and written after the loop only
RECURSIVE merge_loop(_, _, _)
merge_loop(input_files, i, merger) ==
    IF i > Len(input_files) THEN MergeOutcome(TRUE, NoError, <<merger>>)
    ELSE IF ~input_files[i].exists
         THEN MergeOutcome(FALSE,
                  [exc |-> "FileNotFoundError", msg |-> <<"Fichier non trouve", i>>], <<>>)
    ELSE IF input_files[i].is_encrypted
         THEN MergeOutcome(FALSE,
                  [exc |-> "ValueError", msg |-> <<"PDF crypte non supporte", i>>], <<>>)
    ELSE merge_loop(input_files, i + 1, merger \o input_files[i].pages)

merge_pdfs(input_files) == merge_loop(input_files, 1, <<>>)

----------------------------------------------------------------------------
(* The merge route of app.py *)

AllowedExtensions == {"pdf"}

Lower(ext) == IF ext = "PDF" THEN "pdf" ELSE IF ext = "TXT" THEN "txt" ELSE ext

\* '.' in filename and filename.rsplit('.', 1)[1].lower() in ALLOWED_EXTENSIONS;
\* a file name is [stem, ext], ext being "" when the name has no dot
allowed_file(filename) == filename.ext # "" /\ Lower(filename.ext) \in AllowedExtensions

Flash(message) == [exc |-> "flash", msg |-> <<message>>]

\* what a request leaves behind: the response, the output file and the upload
\* folder (path -> saved file)
RouteOutcome(ok, err, out, folder) == [ok |-> ok, err |-> err, out |-> out, folder |-> folder]

\* the loop that saves the allowed files: a file saved under a path that is
\* already there replaces it; uploaded_files lists the path once per file
RECURSIVE save_uploads(_, _, _, _)
save_uploads(files, i, folder, uploaded_files) ==
    IF i > Len(files) THEN [folder |-> folder, uploaded_files |-> uploaded_files]
    ELSE IF allowed_file(files[i].filename)
         THEN LET filepath == files[i].filename
                  f2 == [q \in (DOMAIN folder) \cup {filepath} |->
                            IF q = filepath THEN files[i] ELSE folder[q]]
              IN save_uploads(files, i + 1, f2, Append(uploaded_files, filepath))
    ELSE save_uploads(files, i + 1, folder, uploaded_files)

\* os.remove of every path of uploaded_files that exists
remove_uploads(folder, uploaded_files) ==
    LET gone == {uploaded_files[k] : k \in 1..Len(uploaded_files)}
    IN [q \in (DOMAIN folder) \ gone |-> folder[q]]

\* the files as merge_pdfs finds them on disk
on_disk(folder, uploaded_files) ==
    [k \in 1..Len(uploaded_files) |->
        [exists |-> uploaded_files[k] \in DOMAIN folder,
         is_encrypted |-> folder[uploaded_files[k]].is_encrypted,
         pages |-> folder[uploaded_files[k]].pages]]

\* the request from the saving of the uploads on
merge_saved(files) ==
    LET s == save_uploads(files, 1, <<>>, <<>>)
    IN IF Len(s.uploaded_files) < 2
       THEN RouteOutcome(FALSE, Flash("Au moins 2 fichiers PDF valides sont requis"),
                         <<>>, s.folder)
       ELSE LET m == merge_pdfs(on_disk(s.folder, s.uploaded_files))
                left == remove_uploads(s.folder, s.uploaded_files)
            IN IF m.ok THEN RouteOutcome(TRUE, NoError, m.out, left)
               ELSE RouteOutcome(FALSE, [exc |-> "flash",
                                         msg |-> <<"Erreur lors de la fusion">> \o m.err.msg],
                                 m.out, left)

\* a variant that goes on to merge whatever number of files was saved
merge_route_unchecked(files) ==
    LET s == save_uploads(files, 1, <<>>, <<>>)
        m == merge_pdfs(on_disk(s.folder, s.uploaded_files))
        left == remove_uploads(s.folder, s.uploaded_files)
    IN IF m.ok THEN RouteOutcome(TRUE, NoError, m.out, left)
       ELSE RouteOutcome(FALSE, [exc |-> "flash",
                                 msg |-> <<"Erreur lors de la fusion">> \o m.err.msg],
                         m.out, left)

\* POST /merge
merge_route(files) ==
    IF files = <<>>
    THEN RouteOutcome(FALSE, Flash("Aucun fichier selectionne"), <<>>, <<>>)
    ELSE IF Len(files) < 2
    THEN RouteOutcome(FALSE, Flash("Au moins 2 fichiers PDF sont requis pour la fusion"),
                      <<>>, <<>>)
    ELSE merge_saved(files)

----------------------------------------------------------------------------
(* parse_page_numbers of app.py *)

IsDigit(c) == c \in {"0", "1", "2", "3", "4", "5", "6", "7", "8", "9"}

DigitValue(c) == CHOOSE v \in 0..9 : DigitChar[v + 1] = c

\* str.replace(' ', '')
remove_spaces(s) == SelectSeq(s, LAMBDA c : c # " ")

\* str.split(sep): the pieces between the separators, empty pieces included
RECURSIVE split(_, _)
split(s, sep) ==
    IF \A k \in 1..Len(s) : s[k] # sep THEN <<s>>
    ELSE LET k == CHOOSE i \in 1..Len(s) :
                      s[i] = sep /\ \A j \in 1..(i - 1) : s[j] # sep
         IN <<SubSeq(s, 1, k - 1)>> \o split(SubSeq(s, k + 1, Len(s)), sep)

\* the text of int(s) after its sign, if it has one
unsigned(s) == IF s # <<>> /\ s[1] \in {"+", "-"} THEN Tail(s) ELSE s

\* whether int(s) succeeds: an optional sign, then decimal digits, at least one,
\* with single underscores allowed between two digits
int_ok(s) ==
    LET u == unsigned(s)
    IN /\ u # <<>>
       /\ \A k \in 1..Len(u) :
              \/ IsDigit(u[k])
              \/ /\ u[k] = "_"
                 /\ 1 < k /\ k < Len(u)
                 /\ IsDigit(u[k - 1]) /\ IsDigit(u[k + 1])

\* the value of a string of decimal digits
RECURSIVE int_digits(_)
int_digits(s) == IF s = <<>> THEN 0
                 ELSE int_digits(SubSeq(s, 1, Len(s) - 1)) * 10 + DigitValue(s[Len(s)])

\* int(s) for a string int_ok accepts: the underscores do not count
int(s) ==
    LET v == int_digits(SelectSeq(unsigned(s), IsDigit))
    IN IF s # <<>> /\ s[1] = "-" THEN 0 - v ELSE v

InvalidLiteral == [exc |-> "ValueError", msg |-> <<"invalid literal for int()">>]
TooManyValues == [exc |-> "ValueError", msg |-> <<"too many values to unpack">>]

\* start, end = map(int, part.split('-')): the unpacking draws up to three values
\* from the map, each converted as it is drawn
unpack_error(pieces) ==
    IF \E k \in 1..Len(pieces) : k <= 3 /\ ~int_ok(pieces[k]) THEN InvalidLiteral
    ELSE IF Len(pieces) # 2 THEN TooManyValues
    ELSE NoError

\* list(range(start, end + 1))
range_list(start, end) == [k \in 1..(end + 1 - start) |-> start + k - 1]

\* a variant that keeps the list as collected: sorted(page_numbers)
sorted_list(page_numbers) == SortSeq(page_numbers, LAMBDA a, b : a < b)

\* two ascending sequences without repeats, the second not below the first,
\* put together without repeating the value they may share
glue(a, b) ==
    IF a # <<>> /\ b # <<>> /\ a[Len(a)] = b[1] THEN a \o Tail(b) ELSE a \o b

\* an ascending sequence with each of its values kept once
RECURSIVE once_each(_)
once_each(s) ==
    IF Len(s) <= 1 THEN s
    ELSE glue(once_each(SubSeq(s, 1, Len(s) \div 2)),
              once_each(SubSeq(s, (Len(s) \div 2) + 1, Len(s))))

\* sorted(list(set(page_numbers))): the values in ascending order, once each
sorted_set(page_numbers) ==
    once_each(SortSeq(page_numbers, LAMBDA a, b : a < b))

ParseOutcome(ok, err, value) == [ok |-> ok, err |-> err, value |-> value]

\* the loop over parts from part i on
RECURSIVE parse_loop(_, _, _)
parse_loop(parts, i, page_numbers) ==
    IF i > Len(parts) THEN ParseOutcome(TRUE, NoError, sorted_set(page_numbers))
    ELSE LET part == parts[i]
         IN IF \E k \in 1..Len(part) : part[k] = "-"
            THEN LET pieces == split(part, "-")
                     e == unpack_error(pieces)
                 IN IF e # NoError THEN ParseOutcome(FALSE, e, <<>>)
                    ELSE parse_loop(parts, i + 1,
                             page_numbers \o range_list(int(pieces[1]), int(pieces[2])))
            ELSE IF ~int_ok(part) THEN ParseOutcome(FALSE, InvalidLiteral, <<>>)
            ELSE parse_loop(parts, i + 1, Append(page_numbers, int(part)))

parse_page_numbers(pages_input) ==
    parse_loop(split(remove_spaces(pages_input), ","), 1, <<>>)

----------------------------------------------------------------------------
(* parse_page_ranges of app.py *)

\* the loop over parts from part i on
RECURSIVE ranges_loop(_, _, _)
ranges_loop(parts, i, ranges) ==
    IF i > Len(parts) THEN ParseOutcome(TRUE, NoError, ranges)
    ELSE LET part == parts[i]
         IN IF \E k \in 1..Len(part) : part[k] = "-"
            THEN LET pieces == split(part, "-")
                     e == unpack_error(pieces)
                 IN IF e # NoError THEN ParseOutcome(FALSE, e, <<>>)
                    ELSE ranges_loop(parts, i + 1,
                             Append(ranges, <<int(pieces[1]), int(pieces[2])>>))
            ELSE IF ~int_ok(part) THEN ParseOutcome(FALSE, InvalidLiteral, <<>>)
            ELSE ranges_loop(parts, i + 1, Append(ranges, <<int(part), int(part)>>))

parse_page_ranges(ranges_input) ==
    ranges_loop(split(remove_spaces(ranges_input), ","), 1, <<>>)

----------------------------------------------------------------------------
(* PDFCompressor.compress_pdf and PDFConverter.pdf_to_word: the calls to the
   external engines.  An operation runs up to its next call to an engine and
   goes on when the engine has answered or the call's timeout has expired. *)

\* the keys of quality_settings
SupportedQualities == {"low", "medium", "high"}

\* the timeout of the compression command, in seconds
CompressTimeout == 60

\* a call handed to subprocess.run or to pdf2docx: timeout is <<>> when the call
\* sets none and <<seconds>> when it sets one
EngineCall(cmd, timeout) == [cmd |-> cmd, timeout |-> timeout, result |-> "pending"]

\* the operation has raised err
Failed(err) == [at |-> "done", ok |-> FALSE, err |-> err, call |-> <<>>]

\* the operation has returned True
Succeeded == [at |-> "done", ok |-> TRUE, err |-> NoError, call |-> <<>>]

\* the operation has made the call and waits at position at for its answer
Waits(at, call) == [at |-> at, ok |-> FALSE, err |-> NoError, call |-> <<call>>]

\* except Exception as e: raise RuntimeError(f"Erreur lors de la compression: {str(e)}")
CompressionError(e) ==
    [exc |-> "RuntimeError", msg |-> <<"Erreur lors de la compression">> \o e]

\* a variant that leaves the check of the quality out
compress_begin_unchecked(exists, quality) ==
    IF ~exists THEN Failed(CompressionError(<<"Le fichier n'existe pas">>))
    ELSE Waits("probe", EngineCall("gs --version", <<>>))

\* compress_pdf from its first statement to the call of _check_ghostscript
compress_begin(exists, quality) ==
    IF ~exists THEN Failed(CompressionError(<<"Le fichier n'existe pas">>))
    ELSE IF quality \notin SupportedQualities
    THEN Failed(CompressionError(<<"Qualite non supportee", quality>>))
    ELSE Waits("probe", EngineCall("gs --version", <<>>))

\* compress_pdf from the answer to gs --version to the compression command:
\* _check_ghostscript returns False on a non-zero exit and on a missing program,
\* and lets any other error pass
compress_probed(result) ==
    IF result \in {"nonzero", "missing"}
    THEN Failed(CompressionError(<<"Ghostscript n'est pas installe sur le systeme">>))
    ELSE IF result # "0" THEN Failed(CompressionError(<<result>>))
    ELSE Waits("run", EngineCall("gs -sDEVICE=pdfwrite", <<CompressTimeout>>))

\* compress_pdf from the end of the compression command on; output is what the
\* output path holds then: <<>> when no file, <<content>> when a file
compress_ran(result, output) ==
    IF result = "timeout"
    THEN Failed([exc |-> "RuntimeError", msg |-> <<"La compression a pris trop de temps">>])
    ELSE IF result # "0" THEN Failed(CompressionError(<<"Erreur Ghostscript">>))
    ELSE IF output = <<>>
    THEN Failed(CompressionError(<<"Le fichier compresse n'a pas ete cree">>))
    ELSE Succeeded

WordError(e) ==
    [exc |-> "RuntimeError", msg |-> <<"Erreur lors de la conversion PDF vers Word">> \o e]

\* pdf_to_word from its first statement to the call of pdf2docx's Converter
word_begin(exists) ==
    IF ~exists THEN Failed(WordError(<<"Le fichier n'existe pas">>))
    ELSE Waits("convert", EngineCall("pdf2docx", <<>>))

\* pdf_to_word from the answer of the Converter on
word_converted(result) ==
    IF result # "0" THEN Failed(WordError(<<result>>)) ELSE Succeeded

----------------------------------------------------------------------------
(* PDFCompressor.get_compression_info *)

\* the bytes of a megabyte: 1024 * 1024
MiB == 1024 * 1024

\* a variant with the factors of low and high exchanged
compression_factor_reversed(tier) ==
    IF tier = "low" THEN <<7, 10>> ELSE IF tier = "medium" THEN <<4, 10>> ELSE <<2, 10>>

\* the factor of a tier as <<numerator, denominator>>: 0.2, 0.4, 0.7
compression_factor(tier) ==
    IF tier = "low" THEN <<2, 10>> ELSE IF tier = "medium" THEN <<4, 10>> ELSE <<7, 10>>

\* what round(n / d, 2) may return, in hundredths: the nearest hundredth; when
\* n / d is halfway between two hundredths the floating-point quotient lies on
\* either side of the middle or on it, so either neighbour
round2(n, d) ==
    LET whole == n \div d                        \* the megabytes
        q == 100 * whole + (100 * (n % d)) \div d  \* the hundredths, rounded down
        r == (100 * (n % d)) % d
    IN IF 2 * r < d THEN {q} ELSE IF 2 * r > d THEN {q + 1} ELSE {q, q + 1}

\* the numbers round(file_size * factor / (1024 * 1024), 2) may give for a tier
estimated_compression(file_size, tier) ==
    round2(file_size * compression_factor(tier)[1], compression_factor(tier)[2] * MiB)

----------------------------------------------------------------------------
(* PDFConverter.pdf_to_text *)

\* the text added after the text of a page
PageSeparator == <<"\n", "\n">>

\* the loop over range(page_count) from page page_num (0-indexed) on
RECURSIVE text_loop(_, _, _)
text_loop(d, page_num, text_content) ==
    IF page_num >= d.page_count THEN text_content
    ELSE text_loop(d, page_num + 1, text_content \o d.texts[page_num + 1] \o PageSeparator)

\* pdf_to_text on an existing file: the text extracted; with an output path the
\* text is written there and True returned
pdf_to_text(d) == text_loop(d, 0, <<>>)

----------------------------------------------------------------------------
(* The compress route of app.py *)

NoFilename == [stem |-> "", ext |-> ""]

\* POST /compress up to the call of compress_pdf: the answer without a call, or
\* the upload saved; files holds the file of the request, if it has one
compress_route_begin(files) ==
    IF files = <<>> THEN Failed(Flash("Aucun fichier selectionne"))
    ELSE IF files[1] = NoFilename THEN Failed(Flash("Aucun fichier selectionne"))
    ELSE IF ~allowed_file(files[1])
    THEN Failed(Flash("Fichier non valide. Seuls les fichiers PDF sont acceptes."))
    ELSE Waits("compress_pdf", <<>>)

\* POST /compress from the end of compress_pdf on: the upload is removed on
\* both paths; nothing is done about the output path
compress_route_end(o) ==
    IF o.ok THEN o
    ELSE Failed([exc |-> "flash", msg |-> <<"Erreur lors de la compression">> \o o.err.msg])

----------------------------------------------------------------------------
(* The convert, info and split routes of app.py *)

NoFileSelected == Flash("Aucun fichier selectionne")
NotAPdf == Flash("Fichier non valide. Seuls les fichiers PDF sont acceptes.")

\* the answer a route gives before it saves anything, NoError when it goes on
\* to save the upload: 'file' not in request.files, file.filename == '',
\* allowed_file(file.filename)
upload_refused(files) ==
    IF files = <<>> THEN NoFileSelected
    ELSE IF files[1] = NoFilename THEN NoFileSelected
    ELSE IF ~allowed_file(files[1]) THEN NotAPdf
    ELSE NoError

\* the upload folder after file.save(filepath)
save_upload(files) == (files[1] :> [filename |-> files[1]])

\* the conversion types that have a branch in the route
ConversionBranches == {"images", "word", "text"}

\* POST /convert; converted tells whether the converter's call returns or
\* raises, output what it leaves at the output path.  A conversion type without
\* a branch leaves the try block without an exception and without a return.
convert_route(files, conversion_type, converted, output) ==
    IF upload_refused(files) # NoError
    THEN RouteOutcome(FALSE, upload_refused(files), <<>>, <<>>)
    ELSE IF conversion_type \notin ConversionBranches
    THEN RouteOutcome(FALSE, NotAPdf, <<>>, save_upload(files))
    ELSE IF converted THEN RouteOutcome(TRUE, NoError, output, <<>>)
    ELSE RouteOutcome(FALSE, Flash("Erreur lors de la conversion"), output, <<>>)

\* POST /info; analysed tells whether get_pdf_info returns or raises
info_route(files, analysed) ==
    IF upload_refused(files) # NoError
    THEN RouteOutcome(FALSE, upload_refused(files), <<>>, <<>>)
    ELSE IF analysed THEN RouteOutcome(TRUE, NoError, <<>>, <<>>)
    ELSE RouteOutcome(FALSE, Flash("Erreur lors de l'analyse"), <<>>, <<>>)

\* request.form.get(name, default): form holds the field's text if the request
\* has the field
form_get(form, default) == IF form = <<>> THEN default ELSE form[1]

Raised(exc, msg) == Outcome(FALSE, [exc |-> exc, msg |-> <<msg>>], <<>>, <<>>)

\* the branch of the split method up to the end of the splitter's call; a
\* method without a branch leaves output_files unbound for the zip loop
split_branch(split_method, form, d) ==
    IF split_method = "pages"
    THEN LET pages_input == form_get(form, <<>>)
             p == parse_page_numbers(pages_input)
         IN IF pages_input = <<>>
            THEN Raised("ValueError", "Veuillez specifier les numeros de pages")
            ELSE IF ~p.ok THEN Outcome(FALSE, p.err, <<>>, <<>>)
            ELSE split_by_pages(d, p.value)
    ELSE IF split_method = "range"
    THEN LET ranges_input == form_get(form, <<>>)
             p == parse_page_ranges(ranges_input)
         IN IF ranges_input = <<>>
            THEN Raised("ValueError", "Veuillez specifier les plages de pages")
            ELSE IF ~p.ok THEN Outcome(FALSE, p.err, <<>>, <<>>)
            ELSE split_by_range(d, p.value)
    ELSE IF split_method = "every_n_pages"
    THEN LET n_pages == form_get(form, <<"1">>)
         IN IF ~int_ok(n_pages) THEN Outcome(FALSE, InvalidLiteral, <<>>, <<>>)
            ELSE IF int(n_pages) < 1
            THEN Raised("ValueError", "Le nombre de pages doit etre superieur a 0")
            ELSE split_every_n_pages(d, int(n_pages))
    ELSE IF split_method = "bookmarks" THEN split_by_bookmarks(d)
    ELSE Raised("UnboundLocalError", "output_files")

\* POST /split on the uploaded document d: the response, the zip archive, the
\* upload folder and the output directory of the request.  After the archive
\* the upload, the output files and the directory are removed; after an
\* exception the upload only.
split_route(files, split_method, form, d) ==
    IF upload_refused(files) # NoError
    THEN [ok |-> FALSE, err |-> upload_refused(files), out |-> <<>>, folder |-> <<>>,
          dir |-> <<>>]
    ELSE LET o == split_branch(split_method, form, d)
         IN IF o.ok
            THEN [ok |-> TRUE, err |-> NoError, out |-> <<o.files>>, folder |-> <<>>,
                  dir |-> <<>>]
            ELSE [ok |-> FALSE,
                  err |-> [exc |-> "flash",
                           msg |-> <<"Erreur lors de la division">> \o o.err.msg],
                  out |-> <<>>, folder |-> <<>>, dir |-> SaveAll(<<>>, o.saved)]

----------------------------------------------------------------------------
(* The split calls as steps of the state machine *)

FileNotFound == [exc |-> "FileNotFoundError", msg |-> <<"Le fichier n'existe pas">>]

\* every split method starts with the os.path.exists(input_path) check
IfExists(d, out) == IF d.exists THEN out ELSE Unopened(FileNotFound)

NoCall == [op |-> "none", args |-> <<>>, ok |-> TRUE, err |-> NoError, files |-> <<>>]

\* no request that calls an external engine is under way
Idle == [at |-> "idle", op |-> "none", quality |-> "", files |-> <<>>, exists |-> FALSE]

\* a first call finds the output directory empty and takes its arguments from
\* first; a later call on the same directory repeats the call before it
CallArgs(op, first) ==
    IF calls = 0 THEN first
    ELSE IF calls < MaxCalls /\ ret.op = op THEN {ret.args}
    ELSE {}

Split(op, args, out) ==
    /\ ret' = [op |-> op, args |-> args, ok |-> out.ok, err |-> out.err,
               files |-> out.files]
    /\ written' = out.saved
    /\ outdir' = SaveAll(outdir, out.saved)
    /\ calls' = calls + 1
    /\ handle' = out.handle
    /\ UNCHANGED <<doc, uploads, outfile, text, parsed, req, gs, returned>>

SeqsUpTo(S, n) == UNION {[1..k -> S] : k \in 0..n}

SplitByPages ==
    \E page_numbers \in CallArgs("split_by_pages",
                                 SeqsUpTo(0..(doc.page_count + 1), MaxSel)) :
        Split("split_by_pages", page_numbers,
              IfExists(doc, split_by_pages(doc, page_numbers)))

SplitByRange ==
    \E ranges \in CallArgs("split_by_range",
                           SeqsUpTo((0..(doc.page_count + 1)) \X (0..(doc.page_count + 1)),
                                    MaxRanges)) :
        Split("split_by_range", ranges, IfExists(doc, split_by_range(doc, ranges)))

SplitEveryNPages ==
    \E n_pages \in CallArgs("split_every_n_pages", 0..MaxChunk) :
        Split("split_every_n_pages", n_pages,
              IfExists(doc, split_every_n_pages(doc, n_pages)))

SplitByBookmarks ==
    \E none \in CallArgs("split_by_bookmarks", {<<>>}) :
        Split("split_by_bookmarks", none, IfExists(doc, split_by_bookmarks(doc)))

Titles == {<<"a", " ", "b">>, <<"a", "/", " ">>}

MissingDoc == [exists |-> FALSE, page_count |-> 0, toc |-> <<>>]

PlainDocs(n) ==
    {[exists |-> TRUE, page_count |-> pc, toc |-> <<>>] : pc \in 0..n} \cup {MissingDoc}

TocDocs ==
    UNION {{[exists |-> TRUE, page_count |-> pc, toc |-> t] :
               t \in SeqsUpTo([level : {1}, title : Titles, page : 1..pc], MaxToc)} :
           pc \in 0..MaxPages} \cup {MissingDoc}

InitRest ==
    /\ outdir = <<>>
    /\ written = <<>>
    /\ ret = NoCall
    /\ calls = 0
    /\ uploads = <<>>
    /\ outfile = <<>>
    /\ text = <<>>
    /\ parsed = NoCall
    /\ handle = "none"
    /\ req = Idle
    /\ gs = <<>>
    /\ returned = <<>>

InitSplit == doc \in PlainDocs(MaxPages) /\ InitRest
NextSplit == SplitByPages \/ SplitByRange
SpecSplit == InitSplit /\ [][NextSplit]_vars

InitChunks == doc \in PlainDocs(MaxChunkPages) /\ InitRest
NextChunks == SplitEveryNPages
SpecChunks == InitChunks /\ [][NextChunks]_vars

InitBookmarks == doc \in TocDocs /\ InitRest
NextBookmarks == SplitByBookmarks
SpecBookmarks == InitBookmarks /\ [][NextBookmarks]_vars

\* the pages of the i-th document handed over: <<i, 1>> .. <<i, page_count>>
PagesOfInput(i, page_count) == [p \in 1..page_count |-> <<i, p>>]

InputKinds ==
    {[exists |-> FALSE, is_encrypted |-> FALSE, page_count |-> 0]}
        \cup [exists : {TRUE}, is_encrypted : BOOLEAN, page_count : 0..MaxMergePages]

UploadKinds ==
    [filename : {[stem |-> "a", ext |-> "pdf"], [stem |-> "b", ext |-> "PDF"],
                 [stem |-> "c", ext |-> "txt"]},
     is_encrypted : BOOLEAN, page_count : 1..MaxUploadPages]

\* the documents handed to merge_pdfs: the i-th has the pages <<i, 1>> ..
InputLists ==
    {[i \in 1..Len(kinds) |->
         [exists |-> kinds[i].exists, is_encrypted |-> kinds[i].is_encrypted,
          pages |-> PagesOfInput(i, kinds[i].page_count)]] :
     kinds \in SeqsUpTo(InputKinds, MaxInputs)}

\* the files of a request: the i-th has the pages <<i, 1>> ..
UploadLists ==
    {[i \in 1..Len(kinds) |->
         [filename |-> kinds[i].filename, is_encrypted |-> kinds[i].is_encrypted,
          pages |-> PagesOfInput(i, kinds[i].page_count)]] :
     kinds \in SeqsUpTo(UploadKinds, MaxInputs)}

\* a direct call of PDFMerger.merge_pdfs
MergePdfs ==
    \E input_files \in CallArgs("merge_pdfs", InputLists) :
        LET m == merge_pdfs(input_files)
        IN /\ ret' = [op |-> "merge_pdfs", args |-> input_files, ok |-> m.ok,
                      err |-> m.err, files |-> <<>>]
           /\ outfile' = IF m.out # <<>> THEN m.out ELSE outfile
           /\ calls' = calls + 1
           /\ UNCHANGED <<doc, outdir, written, uploads, text, parsed,
                          handle, req, gs, returned>>

\* a POST request to /merge; every request has its own session id, hence its
\* own upload paths and output path
MergeRoute ==
    /\ calls = 0
    /\ \E files \in UploadLists :
           LET r == merge_route(files)
           IN /\ ret' = [op |-> "merge_route", args |-> files, ok |-> r.ok,
                         err |-> r.err, files |-> <<>>]
              /\ outfile' = r.out
              /\ uploads' = r.folder
              /\ calls' = calls + 1
              /\ UNCHANGED <<doc, outdir, written, text, parsed,
                          handle, req, gs, returned>>

InitMerge == doc = MissingDoc /\ InitRest
NextMerge == MergePdfs \/ MergeRoute
SpecMerge == InitMerge /\ [][NextMerge]_vars

\* the documents of a merge whose output is split afterwards
TripLists ==
    {[i \in 1..Len(kinds) |->
         [exists |-> TRUE, is_encrypted |-> kinds[i].is_encrypted,
          pages |-> PagesOfInput(i, kinds[i].page_count)]] :
     kinds \in SeqsUpTo([is_encrypted : BOOLEAN, page_count : 0..MaxTripPages],
                        MaxTripInputs)}

\* a call of PDFMerger.merge_pdfs on documents that exist
MergeDocuments ==
    \E input_files \in CallArgs("merge_pdfs", TripLists) :
        LET m == merge_pdfs(input_files)
        IN /\ ret' = [op |-> "merge_pdfs", args |-> input_files, ok |-> m.ok,
                      err |-> m.err, files |-> <<>>]
           /\ outfile' = IF m.out # <<>> THEN m.out ELSE outfile
           /\ calls' = calls + 1
           /\ UNCHANGED <<doc, outdir, written, uploads, text, parsed,
                          handle, req, gs, returned>>

\* split_by_pages on the document a successful merge has written: doc becomes
\* that document, merged_from recording the inputs of the merge
SplitMerged ==
    /\ ret.op = "merge_pdfs"
    /\ ret.ok
    /\ LET d == [exists |-> TRUE, page_count |-> Len(outfile[1]), toc |-> <<>>,
                 merged_from |-> ret.args]
       IN \E page_numbers \in SeqsUpTo(0..(d.page_count + 1), MaxTripSel) :
              LET out == split_by_pages(d, page_numbers)
              IN /\ doc' = d
                 /\ ret' = [op |-> "split_by_pages", args |-> page_numbers,
                            ok |-> out.ok, err |-> out.err, files |-> out.files]
                 /\ written' = out.saved
                 /\ outdir' = SaveAll(outdir, out.saved)
                 /\ handle' = out.handle
    /\ UNCHANGED <<calls, uploads, outfile, text, parsed, req, gs, returned>>

InitRoundTrip == doc = MissingDoc /\ InitRest
NextRoundTrip == MergeDocuments \/ SplitMerged
SpecRoundTrip == InitRoundTrip /\ [][NextRoundTrip]_vars

\* the characters a selection text is made of here
Alphabet == {"1", "2", ",", "-", " ", "a"}

\* a token is <<N>> or <<N, M>>; written out as N or N-M
TokenText(token) ==
    IF Len(token) = 1 THEN Digits(token[1])
    ELSE Digits(token[1]) \o <<"-">> \o Digits(token[2])

\* the tokens written out with commas between them
RECURSIVE JoinTokens(_)
JoinTokens(tokens) ==
    IF tokens = <<>> THEN <<>>
    ELSE IF Len(tokens) = 1 THEN TokenText(tokens[1])
    ELSE TokenText(tokens[1]) \o <<",">> \o JoinTokens(Tail(tokens))

\* the texts handed to the parser: every text of up to MaxText characters with
\* at most MaxDigits digits in a row, and
\* every list of up to MaxTokens tokens over 0..MaxNum written out
Texts ==
    {t \in SeqsUpTo(Alphabet, MaxText) :
        \A k \in 1..(Len(t) - MaxDigits) :
            \E j \in k..(k + MaxDigits) : ~IsDigit(t[j])}
        \cup {JoinTokens(tokens) :
                 tokens \in SeqsUpTo(SeqsUpTo(0..MaxNum, 2) \ {<<>>}, MaxTokens)}

ParsePageNumbers ==
    LET r == parse_page_numbers(text)
    IN /\ parsed.op = "none"
       /\ parsed' = [op |-> "parse_page_numbers", ok |-> r.ok, err |-> r.err,
                     value |-> r.value]
       /\ UNCHANGED <<doc, outdir, written, ret, calls, uploads, outfile, text,
                          handle, req, gs, returned>>

InitParse ==
    /\ doc = MissingDoc
    /\ outdir = <<>>
    /\ written = <<>>
    /\ ret = NoCall
    /\ calls = 0
    /\ uploads = <<>>
    /\ outfile = <<>>
    /\ text \in Texts
    /\ parsed = NoCall
    /\ handle = "none"
    /\ req = Idle
    /\ gs = <<>>
    /\ returned = <<>>
NextParse == ParsePageNumbers
SpecParse == InitParse /\ [][NextParse]_vars

\* the characters of the texts handed to both parsers
SelectionAlphabet == {"1", ",", "-", "_", "a", " "}

SelectionTexts == SeqsUpTo(SelectionAlphabet, MaxSelText)

ParsePageRanges ==
    LET r == parse_page_ranges(text)
    IN /\ parsed.op = "none"
       /\ parsed' = [op |-> "parse_page_ranges", ok |-> r.ok, err |-> r.err,
                     value |-> r.value]
       /\ UNCHANGED <<doc, outdir, written, ret, calls, uploads, outfile, text,
                          handle, req, gs, returned>>

InitSelection ==
    /\ doc = MissingDoc
    /\ outdir = <<>>
    /\ written = <<>>
    /\ ret = NoCall
    /\ calls = 0
    /\ uploads = <<>>
    /\ outfile = <<>>
    /\ text \in SelectionTexts
    /\ parsed = NoCall
    /\ handle = "none"
    /\ req = Idle
    /\ gs = <<>>
    /\ returned = <<>>
NextSelection == ParsePageNumbers \/ ParsePageRanges
SpecSelection == InitSelection /\ [][NextSelection]_vars

\* what an output path may hold after an engine has run: no file, a file of
\* zero bytes, the beginning of a document, a whole document
EmptyFile == <<>>
PartialFile == <<"%PDF">>
WholeFile == <<"%PDF", "%%EOF">>
Outputs == {<<>>, <<EmptyFile>>, <<PartialFile>>, <<WholeFile>>}

\* the quality of a request: any text
Qualities == SupportedQualities \cup {"best", ""}

Filenames == {[stem |-> "a", ext |-> "pdf"], [stem |-> "b", ext |-> "PDF"],
              [stem |-> "c", ext |-> "txt"], NoFilename}

Request(op, quality, files, exists) ==
    [at |-> "idle", op |-> op, quality |-> quality, files |-> files, exists |-> exists]

\* the engine's answer noted with the call it answers, the last one made
Answered(log, result) == [log EXCEPT ![Len(log)].result = result]

\* the request r ends with the outcome final; the route has removed its upload
Finish(r, final, log) ==
    /\ req' = [r EXCEPT !.at = "done"]
    /\ gs' = log
    /\ ret' = [op |-> r.op, args |-> r.quality, ok |-> final.ok, err |-> final.err,
               files |-> <<>>]
    /\ uploads' = <<>>

\* the request r goes on from the step outcome o: to its end, or to the wait
\* for the answer to the call it has made
Proceed(r, o, log, folder) ==
    IF o.at = "done"
    THEN Finish(r, IF r.op = "compress_route" THEN compress_route_end(o) ELSE o, log)
    ELSE /\ req' = [r EXCEPT !.at = o.at]
         /\ gs' = log \o o.call
         /\ ret' = ret
         /\ uploads' = folder

\* a direct call of compress_pdf
CompressPdf ==
    /\ req.at = "idle"
    /\ \E quality \in Qualities, exists \in BOOLEAN :
           Proceed(Request("compress_pdf", quality, <<>>, exists),
                   compress_begin(exists, quality), gs, uploads)
    /\ UNCHANGED <<doc, outdir, written, calls, outfile, text, parsed, handle, returned>>

\* a POST request to /compress
CompressRoute ==
    /\ req.at = "idle"
    /\ \E quality \in Qualities, files \in SeqsUpTo(Filenames, 1) :
           LET r == Request("compress_route", quality, files, TRUE)
               b == compress_route_begin(files)
           IN IF b.at = "done" THEN Finish(r, b, gs)
              ELSE Proceed(r, compress_begin(TRUE, quality), gs,
                           (files[1] :> [filename |-> files[1]]))
    /\ UNCHANGED <<doc, outdir, written, calls, outfile, text, parsed, handle, returned>>

\* gs --version ends
ProbeAnswers ==
    /\ req.at = "probe"
    /\ \E result \in {"0", "nonzero", "missing", "PermissionError"} :
           Proceed(req, compress_probed(result), Answered(gs, result), uploads)
    /\ UNCHANGED <<doc, outdir, written, calls, outfile, text, parsed, handle, returned>>

\* the compression command ends within its timeout
RunAnswers ==
    /\ req.at = "run"
    /\ \E result \in {"0", "1"}, output \in Outputs :
           /\ outfile' = output
           /\ Proceed(req, compress_ran(result, output), Answered(gs, result), uploads)
    /\ UNCHANGED <<doc, outdir, written, calls, text, parsed, handle, returned>>

\* the timeout of the compression command expires: subprocess.run kills the
\* command and raises TimeoutExpired
RunTimesOut ==
    /\ req.at = "run"
    /\ \E output \in Outputs \ {<<WholeFile>>} :
           /\ outfile' = output
           /\ Proceed(req, compress_ran("timeout", output), Answered(gs, "timeout"),
                      uploads)
    /\ UNCHANGED <<doc, outdir, written, calls, text, parsed, handle, returned>>

\* a direct call of pdf_to_word
PdfToWord ==
    /\ req.at = "idle"
    /\ \E exists \in BOOLEAN :
           Proceed(Request("pdf_to_word", "", <<>>, exists), word_begin(exists), gs,
                   uploads)
    /\ UNCHANGED <<doc, outdir, written, calls, outfile, text, parsed, handle, returned>>

\* the Converter ends
ConvertAnswers ==
    /\ req.at = "convert"
    /\ \E result \in {"0", "ConversionException"}, output \in Outputs :
           /\ result = "0" => output = <<WholeFile>>
           /\ outfile' = output
           /\ Proceed(req, word_converted(result), Answered(gs, result), uploads)
    /\ UNCHANGED <<doc, outdir, written, calls, text, parsed, handle, returned>>

InitEngines == doc = MissingDoc /\ InitRest
NextEngines ==
    \/ CompressPdf \/ CompressRoute \/ ProbeAnswers \/ RunAnswers \/ RunTimesOut
    \/ PdfToWord \/ ConvertAnswers
SpecEngines == InitEngines /\ [][NextEngines]_vars

\* the conversion type of a request: any text
ConversionTypes == ConversionBranches \cup {"pdf", ""}

\* the split method of a request: any text
SplitMethods == {"pages", "range", "every_n_pages", "bookmarks", "zip"}

\* the text of the form field the split method reads, if the request has it
FormTexts ==
    SeqsUpTo({<<>>, <<"1">>, <<"0">>, <<"9">>, <<"a">>, <<"2", ",", "1">>,
              <<"1", ",", "9">>, <<"1", "-", "2">>, <<"2", "-", "1">>}, 1)

\* the documents a request uploads: without an outline, or with one bookmark
UploadedDocs ==
    {d \in TocDocs : d.exists /\ d.page_count <= MaxRoutePages /\ Len(d.toc) <= 1}

\* the request ends: its response, its output and what it leaves in the upload
\* folder
Respond(op, args, r) ==
    /\ ret' = [op |-> op, args |-> args, ok |-> r.ok, err |-> r.err, files |-> <<>>]
    /\ outfile' = r.out
    /\ uploads' = r.folder
    /\ calls' = calls + 1

\* a POST request to /merge, the only request of the behaviour
MergeRequest == req.at = "idle" /\ MergeRoute

\* a POST request to /compress, the only request of the behaviour
CompressRequest == calls = 0 /\ CompressRoute

\* a POST request to /convert
ConvertRoute ==
    /\ calls = 0 /\ req.at = "idle"
    /\ \E files \in SeqsUpTo(Filenames, 1), conversion_type \in ConversionTypes,
          converted \in BOOLEAN, output \in Outputs :
           /\ converted => output = <<WholeFile>>
           /\ Respond("convert_route", conversion_type,
                      convert_route(files, conversion_type, converted, output))
    /\ UNCHANGED <<doc, outdir, written, text, parsed, handle, req, gs, returned>>

\* a POST request to /info
InfoRoute ==
    /\ calls = 0 /\ req.at = "idle"
    /\ \E files \in SeqsUpTo(Filenames, 1), analysed \in BOOLEAN :
           Respond("info_route", <<>>, info_route(files, analysed))
    /\ UNCHANGED <<doc, outdir, written, text, parsed, handle, req, gs, returned>>

\* a POST request to /split that uploads the document doc
SplitRoute ==
    /\ calls = 0 /\ req.at = "idle"
    /\ \E files \in SeqsUpTo(Filenames, 1), split_method \in SplitMethods,
          form \in FormTexts :
           LET r == split_route(files, split_method, form, doc)
           IN /\ Respond("split_route", <<split_method, form>>, r)
              /\ outdir' = r.dir
    /\ UNCHANGED <<doc, written, text, parsed, handle, req, gs, returned>>

InitRoutes == doc \in UploadedDocs /\ InitRest
NextRoutes ==
    \/ MergeRequest \/ CompressRequest \/ ProbeAnswers \/ RunAnswers \/ RunTimesOut
    \/ ConvertRoute \/ InfoRoute \/ SplitRoute
SpecRoutes == InitRoutes /\ [][NextRoutes]_vars

\* what page.get_text() may return
PageTexts == {<<>>, <<"a">>, <<"b", "\n", "c">>}

TextDocs ==
    UNION {{[exists |-> TRUE, page_count |-> n, toc |-> <<>>, texts |-> t] :
               t \in [1..n -> PageTexts]} : n \in 0..MaxTextPages}
        \cup {[exists |-> FALSE, page_count |-> 0, toc |-> <<>>, texts |-> <<>>]}

\* a call of pdf_to_text, output_path being <<>> when none is given
PdfToText ==
    /\ ret.op = "none"
    /\ \E output_path \in {<<>>, <<"out.txt">>} :
           IF ~doc.exists
           THEN /\ ret' = [op |-> "pdf_to_text", args |-> output_path, ok |-> FALSE,
                           err |-> [exc |-> "RuntimeError",
                                    msg |-> <<"Erreur lors de l'extraction de texte",
                                              "Le fichier n'existe pas">>],
                           files |-> <<>>]
                /\ UNCHANGED <<handle, outfile, returned>>
           ELSE /\ ret' = [op |-> "pdf_to_text", args |-> output_path, ok |-> TRUE,
                           err |-> NoError, files |-> <<>>]
                /\ handle' = "closed"
                /\ outfile' = IF output_path # <<>> THEN <<pdf_to_text(doc)>> ELSE outfile
                /\ returned' = IF output_path # <<>> THEN <<>> ELSE pdf_to_text(doc)
    /\ UNCHANGED <<doc, outdir, written, calls, uploads, text, parsed, req, gs>>

InitText == doc \in TextDocs /\ InitRest
NextText == PdfToText
SpecText == InitText /\ [][NextText]_vars

\* the sizes of the files looked at: the small ones byte by byte, the larger
\* ones in steps of an eighth of a megabyte
FileSizes == (0..MaxFileSize) \cup {k * (MiB \div 8) : k \in 0..MaxEighths}

SizedFiles ==
    {[exists |-> TRUE, page_count |-> 0, toc |-> <<>>, file_size |-> n] : n \in FileSizes}
        \cup {[exists |-> FALSE, page_count |-> 0, toc |-> <<>>, file_size |-> 0]}

\* a call of get_compression_info; the sizes returned are in hundredths of a
\* megabyte, the number each text of estimated_compression starts with
GetCompressionInfo ==
    /\ ret.op = "none"
    /\ IF ~doc.exists
       THEN /\ ret' = [op |-> "get_compression_info", args |-> <<>>, ok |-> FALSE,
                       err |-> [exc |-> "RuntimeError",
                                msg |-> <<"Erreur lors de l'analyse du fichier",
                                          "Le fichier n'existe pas">>],
                       files |-> <<>>]
            /\ UNCHANGED returned
       ELSE \E mb \in round2(doc.file_size, MiB),
               low \in estimated_compression(doc.file_size, "low"),
               medium \in estimated_compression(doc.file_size, "medium"),
               high \in estimated_compression(doc.file_size, "high") :
                /\ ret' = [op |-> "get_compression_info", args |-> <<>>, ok |-> TRUE,
                           err |-> NoError, files |-> <<>>]
                /\ returned' = [file_size_mb |-> mb, file_size_bytes |-> doc.file_size,
                                estimated_compression |->
                                    [low |-> low, medium |-> medium, high |-> high]]
    /\ UNCHANGED <<doc, outdir, written, calls, uploads, outfile, text, parsed,
                   handle, req, gs>>

InitInfo == doc \in SizedFiles /\ InitRest
NextInfo == GetCompressionInfo
SpecInfo == InitInfo /\ [][NextInfo]_vars

----------------------------------------------------------------------------
(* Vocabulary of the properties *)

\* the 1-indexed pages a..b in source order; empty when b < a
PagesFromTo(a, b) == [k \in 1..(b - a + 1) |-> a + k - 1]

\* the least q with q * b >= a
CeilDiv(a, b) == CHOOSE q \in 0..a : q * b >= a /\ (q - 1) * b < a

Called(op) == ret.op = op /\ doc.exists

PageInRange(p) == p >= 1 /\ p <= doc.page_count

ValidRange(r) == 1 <= r[1] /\ r[1] <= r[2] /\ r[2] <= doc.page_count

RECURSIVE Exp10(_)
Exp10(n) == IF n = 0 THEN 1 ELSE 10 * Exp10(n - 1)

\* the three digits of p < 1000, as characters
ThreeDigits(p) ==
    <<DigitChar[(p \div 100) + 1], DigitChar[((p \div 10) % 10) + 1],
      DigitChar[(p % 10) + 1]>>

OutputCount == Cardinality(DOMAIN outdir)

----------------------------------------------------------------------------
(* C1: split_by_range with a list holding an invalid range fails with the
   invalid-range error and has written no output document, not even for the
   valid ranges that come before the offending one.
   The code checks each range in the iteration that extracts it, so the ranges
   before the offending one are already saved when it raises. *)
C1_InvalidRangeWritesNothing ==
    (Called("split_by_range") /\ \E i \in 1..Len(ret.args) : ~ValidRange(ret.args[i]))
        => (/\ ~ret.ok
            /\ ret.err.msg[1] = "Plage invalide"
            /\ written = <<>>
            /\ OutputCount = 0)

(* C2: for a non-empty outline, the section written for entry i holds exactly
   the pages targetPage(i) .. targetPage(i+1) - 1, and targetPage(i) .. pageCount
   for the last entry; the page the next bookmark points to is not in section i.
   Stated here for the outlines whose target pages strictly increase, where every
   span of the claim is non-empty.
   The code passes the 1-indexed next target minus one as the 0-indexed, inclusive
   to_page, so section i ends with the page of the next bookmark. *)
C2_SectionStopsBeforeNextBookmark ==
    (/\ Called("split_by_bookmarks")
     /\ doc.toc # <<>>
     /\ \A i \in 1..(Len(doc.toc) - 1) : doc.toc[i].page < doc.toc[i + 1].page)
        => (/\ ret.ok
            /\ Len(written) = Len(doc.toc)
            /\ \A i \in 1..Len(doc.toc) :
                   written[i][2] =
                       PagesFromTo(doc.toc[i].page,
                                   IF i < Len(doc.toc) THEN doc.toc[i + 1].page - 1
                                   ELSE doc.page_count))

(* C3: split_by_pages with a selection holding a value outside [1, pageCount]
   fails with the out-of-range-page error naming the first offending value,
   extracts and writes nothing, and the output directory is still empty after
   the call is repeated. *)
C3_OutOfRangePageRejected ==
    (Called("split_by_pages") /\ \E i \in 1..Len(ret.args) : ~PageInRange(ret.args[i]))
        => LET first == CHOOSE i \in 1..Len(ret.args) :
                           /\ ~PageInRange(ret.args[i])
                           /\ \A j \in 1..(i - 1) : PageInRange(ret.args[j])
           IN /\ ~ret.ok
              /\ ret.err.exc = "ValueError"
              /\ ret.err.msg[1] = "Numero de page invalide"
              /\ ret.err.msg[2] = ret.args[first]
              /\ ret.files = <<>>
              /\ written = <<>>
              /\ OutputCount = 0

\* a repeated call whose selection has a valid page before the offending one
C3_Witness ==
    /\ Called("split_by_pages")
    /\ calls >= 2
    /\ Len(ret.args) >= 2
    /\ PageInRange(ret.args[1])
    /\ ~PageInRange(ret.args[2])
    /\ ~ret.ok
    /\ OutputCount = 0

(* C7: split_every_n_pages with chunkSize >= 1 produces ceil(pageCount /
   chunkSize) outputs; output i (0-indexed) holds the pages
   i*chunkSize + 1 .. min((i+1)*chunkSize, pageCount) in source order, and only
   the last output may be shorter than chunkSize. *)
C7_ChunksCoverPagesInOrder ==
    (Called("split_every_n_pages") /\ ret.args >= 1)
        => LET n == ret.args
               count == CeilDiv(doc.page_count, n)
           IN /\ ret.ok
              /\ Len(ret.files) = count
              /\ Len(written) = count
              /\ OutputCount = count
              /\ \A i \in 0..(count - 1) :
                     /\ written[i + 1][1] = ret.files[i + 1]
                     /\ outdir[ret.files[i + 1]] =
                            PagesFromTo(i * n + 1, Min((i + 1) * n, doc.page_count))
                     /\ i < count - 1 => Len(outdir[ret.files[i + 1]]) = n

\* ten pages in chunks of three: four outputs, the last one the single page 10
C7_Witness ==
    /\ Called("split_every_n_pages")
    /\ doc.page_count = 10
    /\ ret.args = 3
    /\ Len(ret.files) = 4
    /\ outdir[ret.files[4]] = <<10>>

(* C8 as stated: for a list of valid ranges, repeated or overlapping ones
   included, every returned entry refers to its own document, and the i-th
   document holds exactly the pages start_i .. end_i. *)
C8_OwnDocumentPerRange ==
    (Called("split_by_range") /\ \A i \in 1..Len(ret.args) : ValidRange(ret.args[i]))
        => (/\ ret.ok
            /\ Len(ret.files) = Len(ret.args)
            /\ \A i, j \in 1..Len(ret.files) : i # j => ret.files[i] # ret.files[j]
            /\ \A i \in 1..Len(ret.files) :
                   outdir[ret.files[i]] = PagesFromTo(ret.args[i][1], ret.args[i][2]))

(* C8 amended: for a list of valid ranges the returned sequence has one entry
   per range in input order, the document of entry i holds exactly the pages
   start_i .. end_i in source order, and two entries refer to the same document
   exactly when their ranges are equal: a repeated range yields one file, listed
   once per repetition. *)
C8_DocumentPerDistinctRange ==
    (Called("split_by_range") /\ \A i \in 1..Len(ret.args) : ValidRange(ret.args[i]))
        => (/\ ret.ok
            /\ Len(ret.files) = Len(ret.args)
            /\ \A i, j \in 1..Len(ret.files) :
                   (ret.files[i] = ret.files[j]) <=> (ret.args[i] = ret.args[j])
            /\ OutputCount = Cardinality({ret.args[i] : i \in 1..Len(ret.args)})
            /\ \A i \in 1..Len(ret.files) :
                   /\ ret.files[i] \in DOMAIN outdir
                   /\ outdir[ret.files[i]] = PagesFromTo(ret.args[i][1], ret.args[i][2]))

\* a range given twice next to one that overlaps it
C8_Witness ==
    /\ Called("split_by_range")
    /\ ret.ok
    /\ Len(ret.args) = 2
    /\ ret.args[1] = <<1, 2>>
    /\ ret.args[2] = <<2, 3>>
    /\ OutputCount = 2

(* C9 as stated: for a selection within [1, pageCount], in whatever order the
   caller supplies it, split_by_pages returns one single-page output per
   selected page, the returned sequence is in ascending page-number order, and
   the output for page p is named page_ followed by p in three digits. *)
C9_AscendingWhateverOrder ==
    (Called("split_by_pages") /\ \A i \in 1..Len(ret.args) : PageInRange(ret.args[i]))
        => (/\ ret.ok
            /\ Len(ret.files) = Len(ret.args)
            /\ \A i \in 1..Len(ret.files) : Len(written[i][2]) = 1
            /\ \A i, j \in 1..Len(ret.files) :
                   i < j => written[i][2][1] <= written[j][2][1]
            /\ \A i \in 1..Len(ret.files) :
                   ret.files[i] = <<"p", "a", "g", "e", "_">>
                                     \o ThreeDigits(written[i][2][1])
                                     \o <<".", "p", "d", "f">>)

(* C9 amended: for a selection within [1, pageCount], split_by_pages returns
   one single-page output per entry of the selection in the order the caller
   supplied them, so the returned sequence is ascending when the selection is
   supplied ascending; the output for page p is named page_ followed by p in
   three digits. *)
C9_OutputsFollowSelectionOrder ==
    (Called("split_by_pages") /\ \A i \in 1..Len(ret.args) : PageInRange(ret.args[i]))
        => (/\ ret.ok
            /\ Len(ret.files) = Len(ret.args)
            /\ Len(written) = Len(ret.args)
            /\ \A i \in 1..Len(ret.files) :
                   /\ written[i] = <<ret.files[i], <<ret.args[i]>>>>
                   /\ outdir[ret.files[i]] = <<ret.args[i]>>
                   /\ ret.files[i] = <<"p", "a", "g", "e", "_">>
                                        \o ThreeDigits(ret.args[i])
                                        \o <<".", "p", "d", "f">>
            /\ (\A i, j \in 1..Len(ret.args) : i < j => ret.args[i] < ret.args[j])
                   => \A i, j \in 1..Len(ret.files) :
                          i < j => written[i][2][1] < written[j][2][1])

\* a selection supplied in descending order, answered in that order
C9_Witness ==
    /\ Called("split_by_pages")
    /\ ret.ok
    /\ ret.args = <<3, 1>>
    /\ ret.files = <<page_filename(3), page_filename(1)>>

----------------------------------------------------------------------------
(* Merge properties *)

\* the number of pages of the inputs before input i
RECURSIVE PagesBefore(_, _)
PagesBefore(inputs, i) ==
    IF i <= 1 THEN 0 ELSE PagesBefore(inputs, i - 1) + Len(inputs[i - 1].pages)

\* the files of a request that carry a PDF extension
ValidUploads(files) ==
    {i \in 1..Len(files) : files[i].filename.ext \in {"pdf", "PDF"}}

(* C4 as stated: merge called with fewer than 2 input documents fails with the
   insufficient-inputs error and writes no output artifact. *)
C4_MergeRejectsFewerThanTwo ==
    (ret.op = "merge_pdfs" /\ Len(ret.args) < 2)
        => (~ret.ok /\ outfile = <<>>)

(* C4 amended: the merge route, given a request with fewer than 2 valid PDF
   files, rejects it with its no-file or at-least-2-files message and writes no
   output artifact; PDFMerger.merge_pdfs itself does not check the number of its
   inputs. *)
C4_RouteRejectsFewerThanTwo ==
    (ret.op = "merge_route" /\ Cardinality(ValidUploads(ret.args)) < 2)
        => (/\ ~ret.ok
            /\ ret.err.exc = "flash"
            /\ ret.err.msg[1] \in {"Aucun fichier selectionne",
                                   "Au moins 2 fichiers PDF sont requis pour la fusion",
                                   "Au moins 2 fichiers PDF valides sont requis"}
            /\ outfile = <<>>)

\* a request with two files of which one is a PDF
C4_Witness ==
    /\ ret.op = "merge_route"
    /\ Len(ret.args) = 2
    /\ Cardinality(ValidUploads(ret.args)) = 1
    /\ ~ret.ok
    /\ ret.err.msg[1] = "Au moins 2 fichiers PDF valides sont requis"
    /\ outfile = <<>>

(* C5: a merge whose inputs hold an encrypted document, at whatever position,
   fails with the encrypted-input error and the output file is never created,
   also when unencrypted documents precede the encrypted one. *)
C5_EncryptedInputRejected ==
    (/\ ret.op = "merge_pdfs"
     /\ \A i \in 1..Len(ret.args) : ret.args[i].exists
     /\ \E i \in 1..Len(ret.args) : ret.args[i].is_encrypted)
        => LET first == CHOOSE i \in 1..Len(ret.args) :
                           /\ ret.args[i].is_encrypted
                           /\ \A j \in 1..(i - 1) : ~ret.args[j].is_encrypted
           IN /\ ~ret.ok
              /\ ret.err = [exc |-> "ValueError",
                            msg |-> <<"PDF crypte non supporte", first>>]
              /\ outfile = <<>>

\* an encrypted document after an unencrypted one that has pages
C5_Witness ==
    /\ ret.op = "merge_pdfs"
    /\ Len(ret.args) >= 2
    /\ ret.args[1].exists /\ ~ret.args[1].is_encrypted /\ Len(ret.args[1].pages) >= 1
    /\ ret.args[2].exists /\ ret.args[2].is_encrypted
    /\ ~ret.ok
    /\ outfile = <<>>

(* C6: a successful merge writes a document whose pages are the inputs' pages
   in input order, each input's pages in their own order, so its page count is
   the sum of the inputs' page counts. *)
C6_MergeConcatenates ==
    (ret.op = "merge_pdfs" /\ ret.ok)
        => (/\ Len(outfile) = 1
            /\ Len(outfile[1]) = PagesBefore(ret.args, Len(ret.args) + 1)
            /\ \A i \in 1..Len(ret.args) :
                   /\ ~ret.args[i].is_encrypted
                   /\ \A p \in 1..Len(ret.args[i].pages) :
                          outfile[1][PagesBefore(ret.args, i) + p] = <<i, p>>)

\* documents of 2 and 3 pages merged into one of 5
C6_Witness ==
    /\ ret.op = "merge_pdfs"
    /\ ret.ok
    /\ Len(ret.args) = 2
    /\ Len(ret.args[1].pages) = 2
    /\ Len(ret.args[2].pages) = 3
    /\ outfile = << <<<<1, 1>>, <<1, 2>>, <<2, 1>>, <<2, 2>>, <<2, 3>>>> >>

----------------------------------------------------------------------------
(* Selection parser properties *)

\* the text without its blanks
Stripped == SelectSeq(text, LAMBDA c : c # " ")

\* a well-formed selection: digits, commas and hyphens only; every comma and
\* every hyphen stands between two digits; no two hyphens without a comma
\* between them
WellFormed ==
    LET s == Stripped
    IN /\ s # <<>>
       /\ \A k \in 1..Len(s) :
              \/ IsDigit(s[k])
              \/ /\ s[k] \in {",", "-"}
                 /\ 1 < k /\ k < Len(s)
                 /\ IsDigit(s[k - 1]) /\ IsDigit(s[k + 1])
       /\ \A i, j \in 1..Len(s) :
              (i < j /\ s[i] = "-" /\ s[j] = "-")
                  => \E c \in (i + 1)..(j - 1) : s[c] = ","

\* the number written at positions a..b of s
RECURSIVE NumberAt(_, _, _)
NumberAt(s, a, b) ==
    IF a > b THEN 0
    ELSE DigitValue(s[a]) * Exp10(b - a) + NumberAt(s, a + 1, b)

\* the pages a well-formed text selects: for the token at positions a..b, N for a
\* token N and every integer of [N, M] for a token N-M
Selected ==
    LET s == Stripped
        TokenAt(a, b) ==
            /\ a <= b
            /\ \A k \in a..b : s[k] # ","
            /\ a = 1 \/ s[a - 1] = ","
            /\ b = Len(s) \/ s[b + 1] = ","
        PagesOf(a, b) ==
            IF \E h \in a..b : s[h] = "-"
            THEN LET h == CHOOSE h \in a..b : s[h] = "-"
                 IN NumberAt(s, a, h - 1)..NumberAt(s, h + 1, b)
            ELSE {NumberAt(s, a, b)}
    IN UNION {PagesOf(ab[1], ab[2]) :
                 ab \in {x \in (1..Len(s)) \X (1..Len(s)) : TokenAt(x[1], x[2])}}

(* C10: for a well-formed selection text, parse_page_numbers returns a strictly
   ascending sequence without duplicates whose values are exactly the union,
   over the tokens, of {N} for a token N and of the integers of [N, M] for a
   token N-M (none when N > M), however the tokens overlap or are ordered. *)
C10_ParsedIsSortedUnion ==
    (parsed.op = "parse_page_numbers" /\ WellFormed)
        => (/\ parsed.ok
            /\ \A i, j \in 1..Len(parsed.value) :
                   i < j => parsed.value[i] < parsed.value[j]
            /\ {parsed.value[k] : k \in 1..Len(parsed.value)} = Selected)

\* the overlapping ranges 1-3,0-2 give 0, 1, 2, 3
C10_Witness ==
    /\ parsed.op = "parse_page_numbers"
    /\ text = <<"1", "-", "3", ",", "0", "-", "2">>
    /\ parsed.ok
    /\ parsed.value = <<0, 1, 2, 3>>

(* C11: for a selection text in which a comma-separated token is neither a
   plain integer nor two integers joined by one hyphen (the empty text, an empty
   token, a token with a missing side, a token with more than one hyphen
   included), parse_page_numbers and parse_page_ranges both fail with the
   malformed-selection error and return no selection.
   The code leaves the judgement to int(), which also reads a token such as 1_1
   (digits with an underscore between them) as a number. *)
C11_MalformedSelectionRejected ==
    (parsed.op \in {"parse_page_numbers", "parse_page_ranges"} /\ ~WellFormed)
        => (/\ ~parsed.ok
            /\ parsed.err.exc = "ValueError"
            /\ parsed.value = <<>>)

----------------------------------------------------------------------------
(* Resource properties *)

(* C12: the source document a split operation opens is closed when the
   operation hands control back to its caller, on every exit path: the normal
   return, a validation failure (out-of-range page, invalid range, empty
   outline) and a failure while writing.
   The code calls pdf_document.close() right before its return statement only;
   an exception raised after fitz.open leaves the document open. *)
C12_SourceClosedOnEveryExit ==
    ret.op \in {"split_by_pages", "split_by_range", "split_every_n_pages",
                "split_by_bookmarks"}
        => handle # "open"

----------------------------------------------------------------------------
(* Compression and conversion properties *)

\* the error names m
Mentions(err, m) == \E k \in 1..Len(err.msg) : err.msg[k] = m

\* the request is one that has called compress_pdf on an existing input file
CompressCalled ==
    \/ req.at # "idle" /\ req.op = "compress_pdf" /\ req.exists
    \/ /\ req.at # "idle" /\ req.op = "compress_route"
       /\ req.files # <<>> /\ req.files[1].ext \in {"pdf", "PDF"}

\* the compression command was run and ended with result
CommandEnded(result) ==
    /\ gs # <<>>
    /\ gs[Len(gs)].cmd = "gs -sDEVICE=pdfwrite"
    /\ gs[Len(gs)].result = result

(* C13: whenever compress_pdf returns success the output file exists and is
   not empty; when the backend ends with exit code 0 and the output file is
   missing or has zero bytes, compress_pdf fails with the empty-output error.
   The code checks that the output path exists, not what the file holds: a file
   of zero bytes passes. *)
C13_SuccessMeansNonEmptyOutput ==
    (CompressCalled /\ req.at = "done")
        => (/\ ret.ok => (outfile # <<>> /\ outfile[1] # EmptyFile)
            /\ (CommandEnded("0") /\ outfile \in {<<>>, <<EmptyFile>>})
                   => (~ret.ok /\ Mentions(ret.err, "Le fichier compresse n'a pas ete cree")))

(* C14: for a quality outside low, medium, high, compress_pdf (given an existing
   input file) fails with the unsupported-quality error, and it does so before
   any call to the backend, the availability probe included, and before
   anything is written to the output path. *)
C14_UnsupportedQualityRejectedFirst ==
    (CompressCalled /\ req.quality \notin {"low", "medium", "high"})
        => (/\ req.at = "done"
            /\ ~ret.ok
            /\ Mentions(ret.err, "Qualite non supportee")
            /\ gs = <<>>
            /\ outfile = <<>>)

\* a request to /compress for a PDF file with the quality "best"
C14_Witness ==
    /\ req.op = "compress_route"
    /\ req.at = "done"
    /\ req.files = <<[stem |-> "a", ext |-> "pdf"]>>
    /\ req.quality = "best"
    /\ ~ret.ok
    /\ Mentions(ret.err, "Qualite non supportee")
    /\ gs = <<>>

(* C15: when a compress operation fails after its output file has begun to be
   written (the backend ends with a non-zero exit code or runs into its
   timeout), no file is left at the output path once the caller has handled the
   failure.
   Neither compress_pdf nor the route removes the output path: the route's
   except clause removes the upload only. *)
C15_NoOutputLeftAfterFailure ==
    (/\ req.op = "compress_route"
     /\ req.at = "done"
     /\ ~ret.ok
     /\ CommandEnded("1") \/ CommandEnded("timeout"))
        => outfile = <<>>

(* C16: every call to an external engine made by compress_pdf and pdf_to_word
   (the availability probe, the compression command, the conversion) carries a
   timeout, so that no call waits for ever on an engine that does not answer.
   Only the compression command is run with one. *)
C16_EngineCallsHaveTimeouts ==
    \A k \in 1..Len(gs) : gs[k].timeout # <<>>

----------------------------------------------------------------------------
(* Text extraction properties *)

\* the texts with a blank line between one and the next
RECURSIVE JoinedByBlankLines(_)
JoinedByBlankLines(texts) ==
    IF texts = <<>> THEN <<>>
    ELSE IF Len(texts) = 1 THEN texts[1]
    ELSE texts[1] \o <<"\n", "\n">> \o JoinedByBlankLines(Tail(texts))

\* the text pdf_to_text has produced: returned, or written to its output path
Extracted == IF ret.args = <<>> THEN returned ELSE outfile[1]

(* C17: for a document with pages 1..n, pdf_to_text gives the pages' texts in
   page order with the blank-line separator between consecutive pages only:
   n - 1 separators for n >= 1, none after the last page, the empty text for
   n = 0.
   The code adds the separator after the text of every page, the last included. *)
C17_SeparatorsBetweenPagesOnly ==
    (ret.op = "pdf_to_text" /\ doc.exists)
        => (/\ ret.ok
            /\ Extracted = JoinedByBlankLines(doc.texts))

----------------------------------------------------------------------------
(* Bookmark span properties *)

\* entry i of the outline has an empty or inverted span: the entry after it
\* targets the same page or an earlier one
EmptySpan(i) == i < Len(doc.toc) /\ doc.toc[i + 1].page <= doc.toc[i].page

\* the pages are in source order
Ascending(pages) == \A j, k \in 1..Len(pages) : j < k => pages[j] < pages[k]

(* C18: for an outline entry whose span is empty or inverted, split_by_bookmarks
   either writes an output without pages for it or fails with the
   invalid-bookmark-span error, the same way for every such entry; it never
   writes for it an output that holds source pages, and never writes an output
   whose pages are not in source order.
   The code does not look at the span: for a next entry on the same page it
   writes that page, and for a next entry on an earlier page insert_pdf copies
   the pages from the entry's page down to the earlier one, in reverse order. *)
C18_EmptySpanPolicy ==
    (Called("split_by_bookmarks") /\ \E i \in 1..Len(doc.toc) : EmptySpan(i))
        => \/ ~ret.ok /\ Mentions(ret.err, "InvalidBookmarkSpan") /\ written = <<>>
           \/ /\ ret.ok
              /\ Len(written) = Len(doc.toc)
              /\ \A i \in 1..Len(doc.toc) :
                     /\ EmptySpan(i) => written[i][2] = <<>>
                     /\ Ascending(written[i][2])

----------------------------------------------------------------------------
(* Round trip of merge and split *)

\* the pages of the merge inputs that the output file of the split holds
MergedPagesIn(file) ==
    [k \in 1..Len(outdir[file]) |-> outfile[1][outdir[file][k]]]

\* the split source was merged from two documents of one page each
TwoSinglePagesMerged ==
    /\ ret.op = "split_by_pages"
    /\ Len(doc.merged_from) = 2
    /\ \A i \in 1..2 : Len(doc.merged_from[i].pages) = 1

(* C19: merging two single-page documents A and B and then calling
   split_by_pages on the result with the selection 1, 2 yields exactly two
   outputs, the first holding the page of A and the second the page of B. *)
C19_MergeThenSplitRoundTrip ==
    (TwoSinglePagesMerged /\ ret.args = <<1, 2>>)
        => (/\ ret.ok
            /\ Len(ret.files) = 2
            /\ OutputCount = 2
            /\ MergedPagesIn(ret.files[1]) = doc.merged_from[1].pages
            /\ MergedPagesIn(ret.files[2]) = doc.merged_from[2].pages)

\* page 1 of the first input and page 1 of the second, each in its own file
C19_Witness ==
    /\ TwoSinglePagesMerged
    /\ ret.args = <<1, 2>>
    /\ ret.ok
    /\ MergedPagesIn(page_filename(1)) = << <<1, 1>> >>
    /\ MergedPagesIn(page_filename(2)) = << <<2, 1>> >>

----------------------------------------------------------------------------
(* Size estimate properties *)

InfoReturned == ret.op = "get_compression_info" /\ ret.ok

\* the tenths of the input size a tier is estimated at
TierTenths(tier) == IF tier = "low" THEN 2 ELSE IF tier = "medium" THEN 4 ELSE 7

\* e hundredths of a megabyte is a hundredth nearest to tenths tenths of size bytes
NearestHundredth(e, size, tenths) ==
    LET exact == 10 * size * tenths      \* in units of a hundredth / MiB
        given == e * MiB
    IN (IF given > exact THEN given - exact ELSE exact - given) <= MiB \div 2

(* C20 as stated: for every input size in bytes the three estimates satisfy
   low <= medium <= high <= original size, each estimate being the input size
   times the factor of its tier.
   The estimates are megabytes rounded to two decimals; a rounded estimate can
   be more than the size of the file in bytes. *)
C20_EstimatesBelowOriginalSize ==
    InfoReturned
        => LET est == returned.estimated_compression
           IN /\ est.low <= est.medium
              /\ est.medium <= est.high
              /\ est.high * (MiB \div 4) <= 25 * returned.file_size_bytes

(* C20 amended: for every input size in bytes the three estimates, each the
   input size times the factor of its tier (0.2, 0.4, 0.7) in megabytes rounded
   to two decimals, satisfy low <= medium <= high <= file_size_mb, the original
   size in megabytes rounded the same way. *)
C20_EstimatesOrderedInMB ==
    InfoReturned
        => LET est == returned.estimated_compression
           IN /\ est.low <= est.medium
              /\ est.medium <= est.high
              /\ est.high <= returned.file_size_mb
              /\ NearestHundredth(est.low, returned.file_size_bytes, TierTenths("low"))
              /\ NearestHundredth(est.medium, returned.file_size_bytes, TierTenths("medium"))
              /\ NearestHundredth(est.high, returned.file_size_bytes, TierTenths("high"))
              /\ NearestHundredth(returned.file_size_mb, returned.file_size_bytes, 10)

\* a file of 10 MB: 2.0, 4.0 and 7.0 MB against 10.0 MB
C20_Witness ==
    /\ InfoReturned
    /\ returned.file_size_bytes = 10 * MiB
    /\ returned.file_size_mb = 1000
    /\ returned.estimated_compression = [low |-> 200, medium |-> 400, high |-> 700]

----------------------------------------------------------------------------
(* C21 *)

Routes == {"merge_route", "compress_route", "convert_route", "info_route",
           "split_route"}

\* a route's handler has returned
HandlerReturned == ret.op \in Routes

\* C21: once the handler of a POST request to the merge, compress, convert,
\* info or split route has returned, with a success, a validation rejection or
\* an engine failure, no file that the handler saved for the request is left in
\* the upload folder.
C21_UploadsRemovedOnReturn == HandlerReturned => uploads = <<>>

====
